---- MODULE Spec2Model ----
(***************************************************************************)
(* Model of ResourceTemplate (src/resources/templates/base.py): URI        *)
(* template validation, parse_uri, extract_parameters and                  *)
(* validate_parameters.  Strings are sequences of one-character strings;   *)
(* dicts are functions (parse results) or insertion-ordered sequences of   *)
(* <<name, value>> pairs (the argument of validate_parameters).            *)
(***************************************************************************)
EXTENDS Integers, Sequences, FiniteSets, TLC

VARIABLES template, op, arg, result, argAfter, mem

vars == <<template, op, arg, result, argAfter, mem>>

----------------------------------------------------------------------------
(* Bounds of the model *)

\* largest number of path segments in a generated template or candidate
MaxSegs == 2
\* largest number of entries of a generated parameters mapping
MaxParams == 2

----------------------------------------------------------------------------
(* Strings *)

Proto == <<"d", "o", "c", "s", ":", "/", "/">>
ProtoLen == 7
DocsStr == <<"d", "o", "c", "s">>

\* characters for which str.isalnum() is true, among those the model uses
AlnumChars == {"a", "b", "c", "d", "o", "s"}

\* v.startswith(p)
StartsWith(v, p) == Len(v) >= Len(p) /\ SubSeq(v, 1, Len(p)) = p

\* v[n:]
DropPrefix(v, n) == SubSeq(v, n + 1, Len(v))

\* index of the first "/" of s, 0 when there is none
RECURSIVE FirstSlash(_, _)
FirstSlash(s, i) ==
    IF i > Len(s) THEN 0
    ELSE IF s[i] = "/" THEN i
    ELSE FirstSlash(s, i + 1)

\* s.split('/'): the pieces between slashes, empty pieces included
RECURSIVE Split(_)
Split(s) ==
    LET i == FirstSlash(s, 1) IN
    IF i = 0 THEN <<s>>
    ELSE <<SubSeq(s, 1, i - 1)>> \o Split(SubSeq(s, i + 1, Len(s)))

\* [s for s in segs if s]
RECURSIVE FilterNonEmpty(_)
FilterNonEmpty(segs) ==
    IF segs = <<>> THEN <<>>
    ELSE IF Head(segs) = <<>> THEN FilterNonEmpty(Tail(segs))
    ELSE <<Head(segs)>> \o FilterNonEmpty(Tail(segs))

\* path.split('/') with the empty pieces kept
Segments_KeepEmpty(path) == Split(path)

\* [s for s in path.split('/') if s]
Segments(path) == FilterNonEmpty(Split(path))

\* index of the first "}" of s at or after i, 0 when there is none
RECURSIVE FirstClose(_, _)
FirstClose(s, i) ==
    IF i > Len(s) THEN 0
    ELSE IF s[i] = "}" THEN i
    ELSE FirstClose(s, i + 1)

\* re.match(r'\{([^}]+)\}', seg): anchored at the start only; the group is
\* the non-empty run of non-"}" characters between "{" and the first "}"
ReMatches(seg) ==
    /\ Len(seg) >= 3
    /\ seg[1] = "{"
    /\ FirstClose(seg, 2) >= 3

\* match.group(1)
ReGroup1(seg) == SubSeq(seg, 2, FirstClose(seg, 2) - 1)

\* str.isalnum(): non-empty and every character alphanumeric
IsAlnum(s) == Len(s) > 0 /\ \A i \in 1..Len(s) : s[i] \in AlnumChars

----------------------------------------------------------------------------
(* Dicts *)

EmptyDict == [k \in {} |-> <<>>]

\* d[k] = v
DictSet(d, k, v) == [x \in (DOMAIN d) \cup {k} |-> IF x = k THEN v ELSE d[x]]

----------------------------------------------------------------------------
(* Errors and results *)

NoMsg ==
    [kind |-> "none", expected |-> 0, got |-> 0, name |-> <<>>,
     type |-> "none", clauses |-> <<>>]

NoComponents == [protocol |-> <<>>, path |-> <<>>, parameters |-> EmptyDict]

\* raise URIValidationError(msg)
URIValidationError(m) == [status |-> "URIValidationError", msg |-> m]

\* raise ParameterExtractionError(msg)
ParameterExtractionError(m) == [status |-> "ParameterExtractionError", msg |-> m]

Ok == [status |-> "ok", msg |-> NoMsg]

\* isinstance(value, expected_type): true for the type itself and for its
\* subclasses; bool is a subclass of int
SubclassesOf(t) == IF t = "int" THEN {"int", "bool"} ELSE {t}

IsInstance(value, expected_type) == value.type \in SubclassesOf(expected_type)

----------------------------------------------------------------------------
(* ResourceTemplate *)

\* validate_uri_template with the length test off by one: "docs://" passes
validate_uri_template_OffByOne(v) ==
    IF ~StartsWith(v, Proto)
    THEN URIValidationError([NoMsg EXCEPT !.kind = "URI must start with docs:// protocol"])
    ELSE IF Len(v) < ProtoLen
    THEN URIValidationError([NoMsg EXCEPT !.kind = "URI must have a non-empty path"])
    ELSE Ok

\* validate_uri_template(cls, v)
validate_uri_template(v) ==
    IF ~StartsWith(v, Proto)
    THEN URIValidationError([NoMsg EXCEPT !.kind = "URI must start with docs:// protocol"])
    ELSE IF Len(v) <= ProtoLen
    THEN URIValidationError([NoMsg EXCEPT !.kind = "URI must have a non-empty path"])
    ELSE Ok

\* ResourceTemplate(uri_template=v, parameter_types=pt): state defaults to
\* CREATED; the field validator decides whether an object is produced
NewTemplate(v, pt) ==
    [uri_template |-> v, state |-> "created", parameter_types |-> pt]

\* the loop of parse_uri, also comparing literal template segments with the
\* candidate's
RECURSIVE MatchSegments_Strict(_, _, _)
MatchSegments_Strict(template_segments, uri_segments, parameters) ==
    IF template_segments = <<>> \/ uri_segments = <<>>
    THEN [status |-> "ok", msg |-> NoMsg, parameters |-> parameters]
    ELSE LET template_seg == Head(template_segments)
             uri_seg == Head(uri_segments)
         IN  IF ReMatches(template_seg)
             THEN LET param_name == ReGroup1(template_seg) IN
                  IF ~IsAlnum(param_name)
                  THEN [status |-> "URIValidationError",
                        msg |-> [NoMsg EXCEPT !.kind = "Invalid parameter name",
                                              !.name = param_name],
                        parameters |-> EmptyDict]
                  ELSE MatchSegments_Strict(Tail(template_segments), Tail(uri_segments),
                                            DictSet(parameters, param_name, uri_seg))
             ELSE IF template_seg # uri_seg
             THEN [status |-> "URIValidationError",
                   msg |-> [NoMsg EXCEPT !.kind = "Literal segment mismatch"],
                   parameters |-> EmptyDict]
             ELSE MatchSegments_Strict(Tail(template_segments), Tail(uri_segments),
                                       parameters)

\* the loop of parse_uri over zip(template_segments, uri_segments); it
\* raises at the first placeholder whose name is not alphanumeric
RECURSIVE MatchSegments(_, _, _)
MatchSegments(template_segments, uri_segments, parameters) ==
    IF template_segments = <<>> \/ uri_segments = <<>>
    THEN [status |-> "ok", msg |-> NoMsg, parameters |-> parameters]
    ELSE LET template_seg == Head(template_segments)
             uri_seg == Head(uri_segments)
         IN  IF ReMatches(template_seg)
             THEN LET param_name == ReGroup1(template_seg) IN
                  IF ~IsAlnum(param_name)
                  THEN [status |-> "URIValidationError",
                        msg |-> [NoMsg EXCEPT !.kind = "Invalid parameter name",
                                              !.name = param_name],
                        parameters |-> EmptyDict]
                  ELSE MatchSegments(Tail(template_segments), Tail(uri_segments),
                                     DictSet(parameters, param_name, uri_seg))
             ELSE MatchSegments(Tail(template_segments), Tail(uri_segments),
                                parameters)

\* parse_uri(self, uri)
parse_uri(self, uri) ==
    IF ~StartsWith(uri, Proto)
    THEN [status |-> "URIValidationError",
          msg |-> [NoMsg EXCEPT !.kind = "Invalid protocol"],
          value |-> NoComponents]
    ELSE
    LET path == DropPrefix(uri, ProtoLen)
        template_path == DropPrefix(self.uri_template, ProtoLen)
        template_segments == Segments(template_path)
        uri_segments == Segments(path)
    IN  IF Len(template_segments) # Len(uri_segments)
        THEN [status |-> "URIValidationError",
              msg |-> [NoMsg EXCEPT !.kind = "URI segments do not match template",
                                    !.expected = Len(template_segments),
                                    !.got = Len(uri_segments)],
              value |-> NoComponents]
        ELSE LET m == MatchSegments(template_segments, uri_segments, EmptyDict) IN
             IF m.status # "ok"
             THEN [status |-> m.status, msg |-> m.msg, value |-> NoComponents]
             ELSE [status |-> "ok", msg |-> NoMsg,
                   value |-> [protocol |-> DocsStr, path |-> path,
                              parameters |-> m.parameters]]

\* extract_parameters that only looks for missing names
extract_parameters_MissingOnly(self, uri) ==
    LET components == parse_uri(self, uri) IN
    IF components.status # "ok"
    THEN [status |-> components.status, msg |-> components.msg, value |-> EmptyDict]
    ELSE
    LET parameters == components.value.parameters
        template_params == DOMAIN self.parameter_types
        uri_params == DOMAIN parameters
        missing == template_params \ uri_params
    IN  IF missing # {}
        THEN [status |-> "ParameterExtractionError",
              msg |-> [NoMsg EXCEPT !.kind = "parameters",
                          !.clauses = <<[clause |-> "Missing parameters", names |-> missing]>>],
              value |-> EmptyDict]
        ELSE [status |-> "ok", msg |-> NoMsg, value |-> parameters]

\* extract_parameters(self, uri)
extract_parameters(self, uri) ==
    LET components == parse_uri(self, uri) IN
    IF components.status # "ok"
    THEN [status |-> components.status, msg |-> components.msg, value |-> EmptyDict]
    ELSE
    LET parameters == components.value.parameters
        template_params == DOMAIN self.parameter_types
        uri_params == DOMAIN parameters
        missing == template_params \ uri_params
        extra == uri_params \ template_params
        error_msg ==
            (IF missing # {} THEN <<[clause |-> "Missing parameters", names |-> missing]>>
                             ELSE <<>>)
            \o
            (IF extra # {} THEN <<[clause |-> "Extra parameters", names |-> extra]>>
                           ELSE <<>>)
    IN  IF template_params # uri_params
        THEN [status |-> "ParameterExtractionError",
              msg |-> [NoMsg EXCEPT !.kind = "parameters", !.clauses = error_msg],
              value |-> EmptyDict]
        ELSE [status |-> "ok", msg |-> NoMsg, value |-> parameters]

\* validate_parameters(self, parameters): parameters is an insertion-ordered
\* sequence of <<name, value>> pairs; the loop raises at the first pair whose
\* declared type the value is not an instance of.  The mapping is only read.
RECURSIVE ValidateLoop(_, _)
ValidateLoop(self, items) ==
    IF items = <<>> THEN Ok
    ELSE LET name == Head(items)[1]
             value == Head(items)[2]
             declared == name \in DOMAIN self.parameter_types
         IN  IF declared /\ ~IsInstance(value, self.parameter_types[name])
             THEN ParameterExtractionError(
                      [NoMsg EXCEPT !.kind = "must be of type",
                                    !.name = name,
                                    !.type = self.parameter_types[name]])
             ELSE ValidateLoop(self, Tail(items))

validate_parameters(self, parameters) == ValidateLoop(self, parameters)

----------------------------------------------------------------------------
(* Inputs *)

Slash == <<"/">>

\* segs joined by sep
RECURSIVE Join(_, _)
Join(segs, sep) ==
    IF segs = <<>> THEN <<>>
    ELSE IF Len(segs) = 1 THEN Head(segs)
    ELSE Head(segs) \o sep \o Join(Tail(segs), sep)

\* template segments: a literal, placeholders with an alphanumeric name,
\* a placeholder with a non-alphanumeric name, empty braces, and a
\* placeholder followed by more text
TemplateTokens ==
    { <<"a">>, <<"{", "a", "}">>, <<"{", "b", "}">>, <<"{", "_", "}">>,
      <<"{", "}">>, <<"{", "a", "}", "b">> }

CandidateTokens == { <<"a">>, <<"b">> }

SegSeqs(tokens, n) == UNION { [1..k -> tokens] : k \in 0..n }

\* paths of at most n segments, joined tidily ("x/y") or with leading,
\* repeated and trailing slashes ("/x//y/")
PathsOver(tokens, n) ==
    { Join(segs, Slash) : segs \in SegSeqs(tokens, n) }
    \cup { Slash \o Join(segs, Slash \o Slash) \o Slash : segs \in SegSeqs(tokens, n) }

\* strings that do not start with "docs://"
BadURIs ==
    { <<>>, <<"a">>, SubSeq(Proto, 1, 6), SubSeq(Proto, 1, 6) \o <<"a">>,
      <<"a">> \o Proto \o <<"a">> }

ConstructInputs == { Proto \o p : p \in PathsOver(TemplateTokens, MaxSegs) } \cup BadURIs

CandidateURIs == { Proto \o p : p \in PathsOver(CandidateTokens, MaxSegs) } \cup BadURIs

ParamNames == { <<"a">>, <<"b">> }

DeclaredTypes == {"str", "int"}

\* dicts from some of names to the elements of range
DictsOver(names, range) == UNION { [d -> range] : d \in SUBSET names }

ParameterTypeDicts == DictsOver(ParamNames, DeclaredTypes)

\* runtime values: a str, an int and a bool
Values ==
    { [type |-> "str", v |-> "not_an_int"], [type |-> "int", v |-> "42"],
      [type |-> "bool", v |-> "True"] }

StrValue(s) == [type |-> "str", v |-> s]

\* insertion-ordered mappings of at most n entries with distinct names
OrderedDicts(names, range, n) ==
    { items \in UNION { [1..k -> names \X range] : k \in 0..n } :
        \A i, j \in 1..Len(items) : i # j => items[i][1] # items[j][1] }

ParameterMappings == OrderedDicts(ParamNames, Values, MaxParams)

----------------------------------------------------------------------------
(* State machine *)

NoTemplate == [uri_template |-> <<>>, state |-> "none", parameter_types |-> EmptyDict]

Exists(t) == t.state # "none"

\* an earlier parse_uri call, kept for comparison with later ones: its
\* argument, its outcome, and whether another call has been made since
NoMem ==
    [set |-> FALSE, between |-> FALSE, uri |-> <<>>,
     result |-> [status |-> "ok", msg |-> NoMsg, value |-> NoComponents]]

\* a Template exists and no call on it is in progress
Ready == Exists(template) /\ op \in {"construct", "idle"}

Init ==
    /\ template = NoTemplate
    /\ op = "init"
    /\ arg = <<>>
    /\ result = Ok
    /\ argAfter = <<>>
    /\ mem = NoMem

\* t = ResourceTemplate(uri_template=v, parameter_types=pt), attempted until
\* one construction succeeds: on failure no object is produced
Construct(v, pt) ==
    LET r == validate_uri_template(v) IN
    /\ ~Exists(template)
    /\ op' = "construct"
    /\ arg' = [uri_template |-> v, parameter_types |-> pt]
    /\ argAfter' = arg'
    /\ result' = r
    /\ template' = IF r.status = "ok" THEN NewTemplate(v, pt) ELSE template

\* parse_uri that marks the template active as it goes
ParseURI_Mutating(uri) ==
    /\ Exists(template) /\ op \in {"construct", "idle"}
    /\ op' = "parse_uri"
    /\ arg' = uri
    /\ argAfter' = uri
    /\ result' = parse_uri(template, uri)
    /\ template' = [template EXCEPT !.state = "active"]

\* template.parse_uri(uri)
ParseURI(uri) ==
    /\ Ready
    /\ op' = "parse_uri"
    /\ arg' = uri
    /\ argAfter' = uri
    /\ result' = parse_uri(template, uri)
    /\ template' = template

\* template.extract_parameters(uri)
ExtractParameters(uri) ==
    /\ Ready
    /\ op' = "extract_parameters"
    /\ arg' = uri
    /\ argAfter' = uri
    /\ result' = extract_parameters(template, uri)
    /\ template' = template

\* template.validate_parameters(parameters)
ValidateParameters(parameters) ==
    /\ Ready
    /\ op' = "validate_parameters"
    /\ arg' = parameters
    /\ argAfter' = parameters
    /\ result' = validate_parameters(template, parameters)
    /\ template' = template

\* test_template_parameter_extraction(base_path, params): params is an
\* insertion-ordered sequence of <<name, value>> pairs of strings; the
\* template it builds is local to the test
test_template_parameter_extraction(base_path, params) ==
    LET keys == { params[i][1] : i \in 1..Len(params) }
        param_parts == [i \in 1..Len(params) |-> <<"{">> \o params[i][1] \o <<"}">>]
        param_values == [i \in 1..Len(params) |-> params[i][2]]
        template_uri ==
            Proto \o base_path
                  \o (IF params # <<>> THEN Slash \o Join(param_parts, Slash) ELSE <<>>)
        actual_uri ==
            Proto \o base_path
                  \o (IF params # <<>> THEN Slash \o Join(param_values, Slash) ELSE <<>>)
        constructed == validate_uri_template(template_uri)
        t == NewTemplate(template_uri, [name \in keys |-> "str"])
        typed == [i \in 1..Len(params) |-> <<params[i][1], StrValue(params[i][2])>>]
    IN  /\ ~Exists(template)
        /\ op' = "test_template_parameter_extraction"
        /\ arg' = [base_path |-> base_path, params |-> params]
        /\ argAfter' = arg'
        /\ result' = [constructed |-> constructed,
                      extracted |-> extract_parameters(t, actual_uri),
                      validated |-> validate_parameters(t, typed)]
        /\ template' = template

\* st.text(min_size=1) without '/': the base paths the test draws
BasePaths == TemplateTokens \cup CandidateTokens

\* st.dictionaries(names, values, max_size): the mappings the test draws
TestParams == OrderedDicts(ParamNames, CandidateTokens, MaxParams)

\* the call returns: the caller has its result or its exception, and the
\* Template is ready for the next call
Return ==
    /\ op \in {"parse_uri", "extract_parameters", "validate_parameters"}
    /\ op' = "idle"
    /\ arg' = <<>>
    /\ argAfter' = <<>>
    /\ result' = Ok
    /\ template' = template

Next ==
    \/ /\ ~Exists(template)
       /\ \E v \in ConstructInputs, pt \in ParameterTypeDicts : Construct(v, pt)
       /\ UNCHANGED mem
    \/ /\ Ready
       /\ \E uri \in CandidateURIs \cup {template.uri_template} : ParseURI(uri)
       /\ UNCHANGED mem
    \/ /\ Ready
       /\ \E uri \in CandidateURIs \cup {template.uri_template} : ExtractParameters(uri)
       /\ UNCHANGED mem
    \/ /\ Ready
       /\ \E parameters \in ParameterMappings : ValidateParameters(parameters)
       /\ UNCHANGED mem
    \/ /\ ~Exists(template)
       /\ \E base_path \in BasePaths, params \in TestParams :
              test_template_parameter_extraction(base_path, params)
       /\ UNCHANGED mem
    \/ Return /\ UNCHANGED mem

Spec == Init /\ [][Next]_vars

----------------------------------------------------------------------------
(* Sequences of calls on one Template, with an earlier parse_uri call kept *)

FrameTokens == { <<"a">>, <<"{", "a", "}">>, <<"{", "_", "}">> }

FrameTemplates ==
    { NewTemplate(Proto \o p, pt) :
        p \in PathsOver(FrameTokens, MaxSegs) \ {<<>>},
        pt \in DictsOver({<<"a">>}, {"int"}) }

FrameCandidates ==
    { Proto \o Join(segs, Slash) : segs \in SegSeqs(CandidateTokens, MaxSegs) }
    \cup { <<"a">> }

FrameMappings == OrderedDicts({<<"a">>}, Values, MaxParams)

InitFrame ==
    /\ template \in FrameTemplates
    /\ op = "construct"
    /\ arg = [uri_template |-> template.uri_template,
              parameter_types |-> template.parameter_types]
    /\ argAfter = arg
    /\ result = Ok
    /\ mem = NoMem

\* the call just made is kept, or the one kept before stays
Remember(uri) ==
    \/ mem' = [set |-> TRUE, between |-> FALSE, uri |-> uri, result |-> result']
    \/ mem' = mem

\* a call other than parse_uri has been made since the kept one
Between == mem' = [mem EXCEPT !.between = mem.set]

NextFrame ==
    \/ /\ Ready
       /\ \E uri \in FrameCandidates \cup {template.uri_template} :
              ParseURI(uri) /\ Remember(uri)
    \/ /\ Ready
       /\ \E uri \in FrameCandidates \cup {template.uri_template} : ExtractParameters(uri)
       /\ Between
    \/ /\ Ready
       /\ \E parameters \in FrameMappings : ValidateParameters(parameters)
       /\ Between
    \/ Return /\ UNCHANGED mem

SpecFrame == InitFrame /\ [][NextFrame]_vars

----------------------------------------------------------------------------
(* Properties *)

\* the number of maximal runs of non-slash characters of s
SegmentCount(s) ==
    Cardinality({ i \in 1..Len(s) : s[i] # "/" /\ (i = 1 \/ s[i - 1] = "/") })

\* the non-empty pieces of s between slashes, as a function of the index at
\* which each starts
SegmentStarts(s) == { i \in 1..Len(s) : s[i] # "/" /\ (i = 1 \/ s[i - 1] = "/") }

SegmentAt(s, i) ==
    LET ends == { j \in i..Len(s) : j = Len(s) \/ s[j + 1] = "/" }
        e == CHOOSE j \in ends : \A k \in ends : j <= k
    IN  SubSeq(s, i, e)

SegmentSet(s) == { SegmentAt(s, i) : i \in SegmentStarts(s) }

TemplatePath == DropPrefix(template.uri_template, ProtoLen)

\* C1: for every s of length >= 1, constructing a Template from "docs://" + s
\* succeeds with uri_template stored unchanged and state CREATED, and
\* parse_uri of that template on "docs://" + s returns protocol "docs" and
\* path s.
C1_CreateAndParseSelf ==
    /\ (op = "construct" /\ StartsWith(arg.uri_template, Proto)
            /\ Len(arg.uri_template) >= ProtoLen + 1)
       => /\ result.status = "ok"
          /\ template.uri_template = arg.uri_template
          /\ template.state = "created"
    /\ (op = "parse_uri" /\ arg = template.uri_template)
       => /\ result.status = "ok"
          /\ result.value.protocol = DocsStr
          /\ result.value.path = DropPrefix(arg, ProtoLen)

\* C3: construction fails with URIValidationError, producing no Template,
\* exactly for the strings that do not start with "docs://" and for
\* "docs://" itself; every Template that exists has a uri_template that
\* starts with "docs://" and has a non-empty remainder.
C3_ConstructValidation ==
    /\ op = "construct" =>
          /\ result.status \in {"ok", "URIValidationError"}
          /\ result.status = "URIValidationError"
                <=> (~StartsWith(arg.uri_template, Proto) \/ arg.uri_template = Proto)
          /\ result.status = "URIValidationError" => ~Exists(template)
          /\ result.status = "ok" =>
                /\ Exists(template)
                /\ template.uri_template = arg.uri_template
    /\ Exists(template) =>
          /\ StartsWith(template.uri_template, Proto)
          /\ DropPrefix(template.uri_template, ProtoLen) # <<>>

C3_Witness ==
    /\ op = "construct"
    /\ arg.uri_template = Proto
    /\ result.status = "URIValidationError"
    /\ ~Exists(template)

\* C4: every key of the parameters mapping returned by a successful
\* parse_uri is the name of a template segment that is, in its entirety,
\* "{" name "}"; a segment such as "{id}.json" contributes no entry.
C4_WholeSegmentPlaceholders ==
    (op = "parse_uri" /\ result.status = "ok") =>
        \A k \in DOMAIN result.value.parameters :
            (<<"{">> \o k \o <<"}">>) \in SegmentSet(TemplatePath)

\* C5: validate_parameters fails with ParameterExtractionError exactly when
\* some supplied pair has a declared type and the value's runtime type is not
\* exactly that type (a bool is not an int); otherwise it succeeds.
C5_ExactTypeCheck ==
    op = "validate_parameters" =>
        /\ result.status \in {"ok", "ParameterExtractionError"}
        /\ result.status = "ParameterExtractionError"
              <=> \E i \in 1..Len(arg) :
                    /\ arg[i][1] \in DOMAIN template.parameter_types
                    /\ arg[i][2].type # template.parameter_types[arg[i][1]]

\* C6: whenever parse_uri succeeds, extract_parameters fails with
\* ParameterExtractionError exactly when the declared names differ from the
\* parsed names; the message has a missing-names clause iff a declared name
\* is absent and an extra-names clause iff a parsed name is undeclared;
\* otherwise the parsed mapping is returned unchanged and its keys are the
\* declared names.
C6_ExtractNameSets ==
    (op = "extract_parameters" /\ parse_uri(template, arg).status = "ok") =>
        LET parsed == parse_uri(template, arg).value.parameters
            declared == DOMAIN template.parameter_types
            found == DOMAIN parsed
            clauses == { result.msg.clauses[i].clause : i \in 1..Len(result.msg.clauses) }
        IN  /\ result.status \in {"ok", "ParameterExtractionError"}
            /\ result.status = "ParameterExtractionError" <=> declared # found
            /\ result.status = "ParameterExtractionError" =>
                  /\ "Missing parameters" \in clauses <=> declared \ found # {}
                  /\ "Extra parameters" \in clauses <=> found \ declared # {}
                  /\ \A i \in 1..Len(result.msg.clauses) :
                        result.msg.clauses[i].names =
                            IF result.msg.clauses[i].clause = "Missing parameters"
                            THEN declared \ found ELSE found \ declared
            /\ result.status = "ok" =>
                  /\ result.value = parsed
                  /\ DOMAIN result.value = declared

C6_Witness ==
    /\ op = "extract_parameters"
    /\ result.status = "ParameterExtractionError"
    /\ Len(result.msg.clauses) = 2

\* C7: for a candidate that starts with "docs://", parse_uri fails with the
\* segment-count error exactly when the template path and the candidate path
\* differ in their number of non-empty segments; template "docs://a/{a}"
\* rejects "docs://a" and accepts "docs:///a//b/".
C7_SegmentCountMismatch ==
    (op = "parse_uri" /\ StartsWith(arg, Proto)) =>
        /\ (/\ result.status = "URIValidationError"
            /\ result.msg.kind = "URI segments do not match template")
           <=> SegmentCount(TemplatePath) # SegmentCount(DropPrefix(arg, ProtoLen))
        /\ result.msg.kind = "URI segments do not match template" =>
              /\ result.msg.expected = SegmentCount(TemplatePath)
              /\ result.msg.got = SegmentCount(DropPrefix(arg, ProtoLen))
        /\ TemplatePath = <<"a", "/", "{", "a", "}">> =>
              /\ arg = Proto \o <<"a">> => result.status = "URIValidationError"
              /\ arg = Proto \o <<"/", "a", "/", "/", "b", "/">> => result.status = "ok"

C7_Witness ==
    /\ op = "parse_uri"
    /\ TemplatePath = <<"a", "/", "{", "a", "}">>
    /\ arg = Proto \o <<"/", "a", "/", "/", "b", "/">>
    /\ result.status = "ok"
    /\ result.value.parameters = [k \in {<<"a">>} |-> <<"b">>]

\* C8: when the candidate has the protocol prefix and the segment counts
\* match, parse_uri fails with URIValidationError if any template segment is
\* a brace-wrapped token whose name is not a non-empty alphanumeric string
\* ("{}" included); a successful parse_uri never returns an empty or
\* non-alphanumeric parameter name.
C8_InvalidNamesRejected ==
    (op = "parse_uri" /\ StartsWith(arg, Proto)
        /\ SegmentCount(TemplatePath) = SegmentCount(DropPrefix(arg, ProtoLen))) =>
        /\ (\E seg \in SegmentSet(TemplatePath) :
                /\ Len(seg) >= 2
                /\ seg[1] = "{"
                /\ seg[Len(seg)] = "}"
                /\ ~IsAlnum(SubSeq(seg, 2, Len(seg) - 1)))
           => result.status = "URIValidationError"
        /\ result.status = "ok" =>
              \A k \in DOMAIN result.value.parameters : IsAlnum(k)

\* C9: literal template segments are never compared with the candidate: for
\* two candidates with the protocol prefix and as many non-empty segments as
\* the template, parse_uri succeeds on one iff it succeeds on the other;
\* template "docs://a/{a}" accepts "docs://b/b" with parameters {a: "b"}.
C9_LiteralsNotCompared ==
    (op = "parse_uri" /\ StartsWith(arg, Proto)
        /\ SegmentCount(TemplatePath) = SegmentCount(DropPrefix(arg, ProtoLen))) =>
        /\ \A c \in CandidateURIs :
              (StartsWith(c, Proto)
                  /\ SegmentCount(DropPrefix(c, ProtoLen)) = SegmentCount(TemplatePath))
              => (parse_uri(template, c).status = "ok" <=> result.status = "ok")
        /\ (TemplatePath = <<"a", "/", "{", "a", "}">> /\ arg = Proto \o <<"b", "/", "b">>)
              => /\ result.status = "ok"
                 /\ result.value.parameters = [k \in {<<"a">>} |-> <<"b">>]

C9_Witness ==
    /\ op = "parse_uri"
    /\ TemplatePath = <<"a", "/", "{", "a", "}">>
    /\ arg = Proto \o <<"b", "/", "b">>
    /\ result.status = "ok"

\* C2: round trip: for a slash-free base path and a mapping of distinct
\* alphanumeric names to slash-free values, with template
\* "docs://" + base + "/{k1}/{k2}/..." declaring every name a string and
\* candidate "docs://" + base + "/v1/v2/...", extract_parameters returns
\* exactly {k1: v1, ...} and validate_parameters accepts that mapping.
C2_RoundTrip ==
    op = "test_template_parameter_extraction" =>
        /\ result.constructed.status = "ok"
        /\ result.extracted.status = "ok"
        /\ result.extracted.value =
              [k \in { arg.params[i][1] : i \in 1..Len(arg.params) } |->
                  LET i == CHOOSE j \in 1..Len(arg.params) : arg.params[j][1] = k
                  IN  arg.params[i][2]]
        /\ result.validated.status = "ok"

\* C10: no parse_uri, extract_parameters or validate_parameters call,
\* succeeding or failing, changes the Template's uri_template,
\* parameter_types or state (it stays CREATED) or the mapping passed to
\* validate_parameters; a parse_uri call with the arguments of an earlier one
\* yields the earlier one's result, whatever was called in between.
C10_FrameAndIdempotence ==
    [][ /\ template' = template
        /\ template'.state = "created"
        /\ op' = "validate_parameters" => argAfter' = arg'
        /\ (op' = "parse_uri" /\ mem.set /\ arg' = mem.uri) => result' = mem.result
      ]_vars

C10_Witness ==
    /\ op = "parse_uri"
    /\ mem.set
    /\ mem.between
    /\ arg = mem.uri
    /\ result = mem.result
    /\ result.status = "ok"
    /\ template.state = "created"

====
